---- MODULE Spec2Model ----
(***************************************************************************)
(* Model of django_cloud_deploy/cli/prompt_new.py: the four console        *)
(* prompts AskPrompt, MultipleChoicePrompt, BinaryPrompt and               *)
(* PasswordPrompt, their validate() methods and their prompt() retry       *)
(* loops.  The console (io.IO) is the environment: every console.ask and   *)
(* console.getpass call returns a string chosen by the user, and every     *)
(* console call is appended to the variable log.                           *)
(*                                                                         *)
(* A Python str is a sequence of one-character strings.  The character     *)
(* "HALF" stands for U+00BD, a character for which str.isnumeric is true   *)
(* and int() raises ValueError.  The identity test  answer is ''  is       *)
(* modelled as equality with the empty string (CPython keeps one empty     *)
(* str object).                                                            *)
(***************************************************************************)
EXTENDS Integers, Sequences, FiniteSets, TLC

\* ------------------------------------------------------------- bounds ----
\* Longest recorded sequence of console calls in one prompt() invocation.
MaxCalls == 7
\* Longest option list of a MultipleChoicePrompt.
MaxOptions == 2
\* Calls recorded before recording starts over, where retries are unbounded.
MaxLiveCalls == 3

\* ------------------------------------------------------ Python values ----
\* Python's None, where a str is expected (no str contains this character).
NoneVal == <<"<None>">>

EmptyStr == <<>>

\* Truth value of an Optional[str]: None and '' are false.
Truthy(v) == v # NoneVal /\ v # EmptyStr

\* string.ascii_letters
ascii_letters ==
  <<"a","b","c","d","e","f","g","h","i","j","k","l","m",
    "n","o","p","q","r","s","t","u","v","w","x","y","z",
    "A","B","C","D","E","F","G","H","I","J","K","L","M",
    "N","O","P","Q","R","S","T","U","V","W","X","Y","Z">>

\* string.digits
digits == <<"0","1","2","3","4","5","6","7","8","9">>

\* string.punctuation ("GRAVE" names the grave accent U+0060)
punctuation ==
  <<"!","\"","#","$","%","&","'","(",")","*","+",",","-",".","/",":",
    ";","<",">","=","?","@","[","\\","]","^","_","GRAVE","{","|","}","~">>

\* frozenset(s)
frozenset(s) == { s[i] : i \in 1..Len(s) }

\* The value of a decimal digit character.
DigitValue(c) == CHOOSE i \in 0..9 : digits[i + 1] = c

\* Characters for which str.isnumeric is true: the decimal digits and the
\* vulgar fraction one half.
NumericChars == frozenset(digits) \cup {"HALF"}

\* str.isnumeric(s): non-empty and every character numeric.
isnumeric(s) == Len(s) > 0 /\ \A i \in 1..Len(s) : s[i] \in NumericChars

\* True when int(s) parses (for the strings isnumeric lets through).
IsDecimal(s) == Len(s) > 0 /\ \A i \in 1..Len(s) : s[i] \in frozenset(digits)

RECURSIVE DecimalValue(_)
\* int(s) of a string of decimal digits.
DecimalValue(s) ==
  IF Len(s) = 0 THEN 0
  ELSE 10 * DecimalValue(SubSeq(s, 1, Len(s) - 1)) + DigitValue(s[Len(s)])

RECURSIVE str(_)
\* str(i) of a natural number.
str(i) ==
  IF i < 10 THEN <<digits[i + 1]>>
  ELSE str(i \div 10) \o <<digits[(i % 10) + 1]>>

\* str.lower of one character.
LowerChar(c) ==
  IF \E i \in 27..52 : ascii_letters[i] = c
  THEN ascii_letters[(CHOOSE i \in 27..52 : ascii_letters[i] = c) - 26]
  ELSE c

\* s.lower()
lower(s) == [i \in 1..Len(s) |-> LowerChar(s[i])]

RECURSIVE join(_, _)
\* sep.join(parts)
join(sep, parts) ==
  IF Len(parts) = 0 THEN EmptyStr
  ELSE IF Len(parts) = 1 THEN parts[1]
  ELSE parts[1] \o sep \o join(sep, Tail(parts))

\* ----------------------------------------------- results of a call ----
\* A call that returns v.
Returns(v) == [raises |-> FALSE, exc |-> "", msg |-> EmptyStr, value |-> v]

\* A call that raises exception type t with message m.
Raises(t, m) == [raises |-> TRUE, exc |-> t, msg |-> m, value |-> "None"]

\* Mutant of ExceptValueError: the clause names another exception type.
ExceptTypeError(r) == r.raises /\ r.exc = "TypeError"

\* The clause  except ValueError as e  of the prompt loops.
ExceptValueError(r) == r.raises /\ r.exc = "ValueError"

\* ------------------------------------------------------- validate() ----
\* int(s): ValueError unless s is a string of decimal digits.
int(s) ==
  IF IsDecimal(s) THEN Returns(DecimalValue(s))
  ELSE Raises("ValueError", <<"invalid literal for int() with base 10">>)

\* Mutant of MultipleChoicePrompt_validate: the default is tested for truth
\* ( if self._default and s == '' ) instead of  is not None .
MultipleChoicePrompt_validate_truthy(default, options, s) ==
  IF Truthy(default) /\ s = EmptyStr THEN Returns("True")
  ELSE IF ~ isnumeric(s)
       THEN Raises("ValueError", <<"Please enter a numeric value">>)
  ELSE IF int(s).raises THEN int(s)
  ELSE IF 1 <= int(s).value /\ int(s).value <= Len(options) + 1
       THEN Returns("True")
  ELSE Raises("ValueError", <<"Value is not in range">>)

\* MultipleChoicePrompt.validate
MultipleChoicePrompt_validate(default, options, s) ==
  IF default # NoneVal /\ s = EmptyStr THEN Returns("True")
  ELSE IF ~ isnumeric(s)
       THEN Raises("ValueError", <<"Please enter a numeric value">>)
  ELSE IF int(s).raises THEN int(s)
  ELSE IF 1 <= int(s).value /\ int(s).value <= Len(options) + 1
       THEN Returns("True")
  ELSE Raises("ValueError", <<"Value is not in range">>)

\* Mutant of BinaryPrompt_validate: the empty string passes as well.
BinaryPrompt_validate_empty(s) ==
  IF lower(s) \notin {<<"y">>, <<"n">>, EmptyStr}
  THEN Raises("ValueError", <<"Please respond using \"y\" or \"n\"">>)
  ELSE Returns("False")

\* BinaryPrompt.validate
BinaryPrompt_validate(s) ==
  IF lower(s) \notin {<<"y">>, <<"n">>}
  THEN Raises("ValueError", <<"Please respond using \"y\" or \"n\"">>)
  ELSE Returns(IF lower(s) \notin {<<"y">>, <<"n">>} THEN "True" ELSE "False")

\* allowed_characters of PasswordPrompt.validate
allowed_characters ==
  frozenset(ascii_letters \o digits \o punctuation)

\* The length test of PasswordPrompt.validate.
MinPasswordLen == 5

\* PasswordPrompt.validate
PasswordPrompt_validate(s) ==
  IF Len(s) < MinPasswordLen
  THEN Raises("ValueError",
              <<"Passwords must be at least 6 characters long">>)
  ELSE IF allowed_characters \subseteq frozenset(s)
  THEN Raises("ValueError",
      <<"Invalid character in password: use letters, numbers and punctuation">>)
  ELSE Returns("True")

\* ----------------------------------------------------- configuration ----
\* The question text passed to the constructors.
Question == <<"Q", "?">>

\* The option lists a MultipleChoicePrompt is constructed with.
AllOptions == <<<<"a">>, <<"b">>, <<"c">>, <<"d">>, <<"e">>, <<"f">>>>
OptionLists == { SubSeq(AllOptions, 1, n) : n \in 0..MaxOptions }

\* Lines the user types at console.ask of an AskPrompt.
AskInputs == { EmptyStr, <<"a">>, <<"b">> }
\* default argument of AskPrompt.
AskDefaults == { NoneVal, EmptyStr, <<"d">>, <<"a">> }
\* The strings an injected validator can be called with.
AskStrs == AskInputs \cup (AskDefaults \ {NoneVal})
\* What an injected validator does with a string: it returns True or
\* False, or raises ValueError.
ValidatorResults ==
  { Returns("True"), Returns("False"),
    Raises("ValueError", <<"invalid value">>) }
\* The injected validators (Callable[[str], bool]).
Validators == [AskStrs -> ValidatorResults]
\* lambda s: True
AlwaysTrue == [s \in AskStrs |-> Returns("True")]
\* validate=None (fn is then unused)
NoValidator == [given |-> FALSE, fn |-> AlwaysTrue]
\* validate argument of AskPrompt: None or a validator.
ValidateArgs == { NoValidator } \cup { [given |-> TRUE, fn |-> f] : f \in Validators }

\* Lines the user types at console.ask of a MultipleChoicePrompt.
MultipleChoiceInputs ==
  { EmptyStr, <<"0">>, <<"1">>, <<"2">>, <<"3">>, <<"4">>, <<"5">>,
    <<"0","1">>, <<"1","0">>, <<"a">>, <<"1","a">>, <<"HALF">> }
\* default argument of MultipleChoicePrompt.
MultipleChoiceDefaults == { NoneVal, EmptyStr, <<"1">> }

\* Lines the user types at console.ask of a BinaryPrompt.
BinaryInputs ==
  { EmptyStr, <<"y">>, <<"Y">>, <<"n">>, <<"N">>, <<"a">>,
    <<"y","e","s">> }
\* default argument of BinaryPrompt.
BinaryDefaults == { NoneVal, EmptyStr, <<"Y">>, <<"n">>, <<"a">> }

\* A password made of every allowed character (94 characters).
EveryAllowed == ascii_letters \o digits \o punctuation
\* Lines the user types at console.getpass of a PasswordPrompt.
PasswordInputs ==
  { EmptyStr, <<"a","b","c","d">>, <<"a","b","c","d","e">>,
    <<"a","b","1","!","e","f">>, <<"a","b"," ","d","e">>,
    EveryAllowed, EveryAllowed \o <<" ">> }

Kinds == { "AskPrompt", "MultipleChoicePrompt", "BinaryPrompt",
           "PasswordPrompt" }

\* -------------------------------------------------------------- state ----
VARIABLES
  kind,           \* the class of the prompt object
  arg_validate,   \* AskPrompt.__init__: the validate argument
  self_validate,  \* AskPrompt._validate
  self_default,   \* _default
  self_options,   \* MultipleChoicePrompt._options
  pc,             \* position of prompt(): start, loop, again, done, raised
  answer,         \* local variable answer
  password1,      \* local variable password1
  password2,      \* local variable password2
  retval,         \* the value prompt() returned
  log             \* the console calls made so far, in order

vars == << kind, arg_validate, self_validate, self_default, self_options,
           pc, answer, password1, password2, retval, log >>

\* console.ask(text) answered with val
AskCall(text, val) == [op |-> "ask", text |-> text, val |-> val]
\* console.getpass(text) answered with val
GetpassCall(text, val) == [op |-> "getpass", text |-> text, val |-> val]
\* console.error(msg)
ErrorCall(msg) == [op |-> "error", text |-> msg, val |-> EmptyStr]

\* Mutant of AskPrompt_init: the validate argument is dropped.
AskPrompt_init_novalidate(validate, default) ==
  /\ kind = "AskPrompt"
  /\ arg_validate = validate
  /\ self_validate = AlwaysTrue
  /\ self_default = default
  /\ self_options = <<>>
  /\ pc = "loop"

\* AskPrompt.__init__
AskPrompt_init(validate, default) ==
  /\ kind = "AskPrompt"
  /\ arg_validate = validate
  /\ self_validate = IF validate.given THEN validate.fn ELSE AlwaysTrue
  /\ self_default = default
  /\ self_options = <<>>
  /\ pc = "loop"

\* MultipleChoicePrompt.__init__
MultipleChoicePrompt_init(options, default) ==
  /\ kind = "MultipleChoicePrompt"
  /\ arg_validate = NoValidator
  /\ self_validate = AlwaysTrue
  /\ self_default = default
  /\ self_options = options
  /\ pc = "start"

\* BinaryPrompt.__init__
BinaryPrompt_init(default) ==
  /\ kind = "BinaryPrompt"
  /\ arg_validate = NoValidator
  /\ self_validate = AlwaysTrue
  /\ self_default = default
  /\ self_options = <<>>
  /\ pc = "loop"

\* PasswordPrompt.__init__
PasswordPrompt_init ==
  /\ kind = "PasswordPrompt"
  /\ arg_validate = NoValidator
  /\ self_validate = AlwaysTrue
  /\ self_default = NoneVal
  /\ self_options = <<>>
  /\ pc = "loop"

Init ==
  /\ \/ \E v \in ValidateArgs, d \in AskDefaults : AskPrompt_init(v, d)
     \/ \E o \in OptionLists, d \in MultipleChoiceDefaults :
          MultipleChoicePrompt_init(o, d)
     \/ \E d \in BinaryDefaults : BinaryPrompt_init(d)
     \/ PasswordPrompt_init
  /\ answer = NoneVal
  /\ password1 = NoneVal
  /\ password2 = NoneVal
  /\ retval = NoneVal
  /\ log = <<>>

\* ------------------------------------------------------------ prompt() ----
\* Mutant of Substitute: the default replaces every answer.
Substitute_always(default, raw) == IF Truthy(default) THEN default ELSE raw

\* Mutant of Substitute: the default is never substituted.
Substitute_never(default, raw) == raw

\* The default substitution of AskPrompt.prompt and BinaryPrompt.prompt:
\*   if self._default and answer is '': answer = self._default
Substitute(default, raw) ==
  IF Truthy(default) /\ raw = EmptyStr THEN default ELSE raw

\* One pass of the while loop of AskPrompt.prompt, the user typing input.
AskPrompt_prompt ==
  /\ kind = "AskPrompt"
  /\ pc = "loop"
  /\ Len(log) + 2 <= MaxCalls
  /\ \E input \in AskInputs :
       LET a == Substitute(self_default, input)
           r == self_validate[a]
           asked == Append(log, AskCall(Question, input))
       IN /\ answer' = a
          /\ IF ~ r.raises
             THEN /\ pc' = "done"
                  /\ retval' = a
                  /\ log' = asked
             ELSE IF ExceptValueError(r)
             THEN /\ pc' = "loop"
                  /\ retval' = retval
                  /\ log' = Append(asked, ErrorCall(r.msg))
             ELSE /\ pc' = "raised"
                  /\ retval' = retval
                  /\ log' = asked
  /\ UNCHANGED << kind, arg_validate, self_validate, self_default,
                  self_options, password1, password2 >>

\* Mutant of options_formatted: enumerate() without its start of 1.
options_formatted_from0(options) ==
  [i \in 1..Len(options) |-> str(i - 1) \o <<".", " ">> \o options[i]]

\* The text of the first console.ask of MultipleChoicePrompt.prompt.
options_formatted(options) ==
  [i \in 1..Len(options) |-> str(i) \o <<".", " ">> \o options[i]]

FirstQuestion(question, options) ==
  join(<<"\n">>, << question, join(<<"\n">>, options_formatted(options)) >>)

\* MultipleChoicePrompt.prompt up to the while loop.
MultipleChoicePrompt_ask ==
  /\ kind = "MultipleChoicePrompt"
  /\ pc = "start"
  /\ \E input \in MultipleChoiceInputs :
       /\ answer' = input
       /\ log' = Append(log,
                   AskCall(FirstQuestion(Question, self_options), input))
  /\ pc' = "loop"
  /\ UNCHANGED << kind, arg_validate, self_validate, self_default,
                  self_options, password1, password2, retval >>

\* One pass of the while loop of MultipleChoicePrompt.prompt.
MultipleChoicePrompt_prompt ==
  /\ kind = "MultipleChoicePrompt"
  /\ pc = "loop"
  /\ LET r == MultipleChoicePrompt_validate(self_default, self_options,
                                            answer)
     IN IF ~ r.raises
        THEN /\ pc' = "done"
             /\ retval' = answer
             /\ UNCHANGED << answer, log >>
        ELSE IF ExceptValueError(r)
        THEN /\ Len(log) + 2 <= MaxCalls
             /\ \E input \in MultipleChoiceInputs :
                  /\ answer' = input
                  /\ log' = Append(Append(log, ErrorCall(r.msg)),
                                   AskCall(Question, input))
             /\ UNCHANGED << pc, retval >>
        ELSE /\ pc' = "raised"
             /\ UNCHANGED << answer, retval, log >>
  /\ UNCHANGED << kind, arg_validate, self_validate, self_default,
                  self_options, password1, password2 >>

\* One pass of the while loop of BinaryPrompt.prompt.
BinaryPrompt_prompt ==
  /\ kind = "BinaryPrompt"
  /\ pc = "loop"
  /\ Len(log) + 2 <= MaxCalls
  /\ \E input \in BinaryInputs :
       LET a == Substitute(self_default, input)
           r == BinaryPrompt_validate(a)
           asked == Append(log, AskCall(Question, input))
       IN /\ answer' = a
          /\ IF ~ r.raises
             THEN /\ pc' = "done"
                  /\ retval' = a
                  /\ log' = asked
             ELSE IF ExceptValueError(r)
             THEN /\ pc' = "loop"
                  /\ retval' = retval
                  /\ log' = Append(asked, ErrorCall(r.msg))
             ELSE /\ pc' = "raised"
                  /\ retval' = retval
                  /\ log' = asked
  /\ UNCHANGED << kind, arg_validate, self_validate, self_default,
                  self_options, password1, password2 >>

\* Mutant of AfterValidate: the except clause lacks its  continue .
AfterValidate_fallthrough(r) == "again"

\* Where PasswordPrompt.prompt goes after validating password1: the except
\* clause ends in  continue , otherwise the confirmation is read.
AfterValidate(r) == IF r.raises THEN "loop" ELSE "again"

\* Mutant of AfterConfirm: the loop goes round after a matching pair too.
AfterConfirm_retry(p1, p2) == "loop"

\* Mutant of AfterConfirm: the mismatch branch lacks its  continue .
AfterConfirm_fallthrough(p1, p2) == "done"

\* Where PasswordPrompt.prompt goes after the confirmation read:
\*   if password1 != password2: ... continue ; return password1
AfterConfirm(p1, p2) == IF p1 # p2 THEN "loop" ELSE "done"

\* PasswordPrompt.prompt: the first read of a pass and its validation.
PasswordPrompt_first ==
  /\ kind = "PasswordPrompt"
  /\ pc = "loop"
  /\ Len(log) + 2 <= MaxCalls
  /\ \E input \in PasswordInputs :
       LET r == PasswordPrompt_validate(input)
           read == Append(log, GetpassCall(<<"Password: ">>, input))
       IN /\ password1' = input
          /\ IF ~ r.raises
             THEN /\ pc' = AfterValidate(r)
                  /\ log' = read
             ELSE IF ExceptValueError(r)
             THEN /\ pc' = AfterValidate(r)
                  /\ log' = Append(read, ErrorCall(r.msg))
             ELSE /\ pc' = "raised"
                  /\ log' = read
  /\ UNCHANGED << kind, arg_validate, self_validate, self_default,
                  self_options, answer, password2, retval >>

\* PasswordPrompt.prompt: the confirmation read and the comparison.
PasswordPrompt_again ==
  /\ kind = "PasswordPrompt"
  /\ pc = "again"
  /\ Len(log) + 2 <= MaxCalls
  /\ \E input \in PasswordInputs :
       LET read == Append(log, GetpassCall(<<"Password (again): ">>, input))
       IN /\ password2' = input
          /\ log' = IF password1 # input
                     THEN Append(read,
                       ErrorCall(<<"Passwords do not match, please try again">>))
                     ELSE read
          /\ pc' = AfterConfirm(password1, input)
          /\ retval' = IF AfterConfirm(password1, input) = "done"
                       THEN password1 ELSE retval
  /\ UNCHANGED << kind, arg_validate, self_validate, self_default,
                  self_options, answer, password1 >>

Next ==
  \/ AskPrompt_prompt
  \/ MultipleChoicePrompt_ask
  \/ MultipleChoicePrompt_prompt
  \/ BinaryPrompt_prompt
  \/ PasswordPrompt_first
  \/ PasswordPrompt_again

Spec == Init /\ [][Next]_vars

\* ============================================================ claims ====
\* Positions of the console reads (ask or getpass) in the log.
Reads == { i \in 1..Len(log) : log[i].op \in {"ask", "getpass"} }
\* Number of console.ask calls made so far.
NumAsks == Cardinality({ i \in 1..Len(log) : log[i].op = "ask" })
\* Number of console.error calls made so far.
NumErrors == Cardinality({ i \in 1..Len(log) : log[i].op = "error" })
\* The answers BinaryPrompt accepts, lower-cased.
YesNo == { <<"y">>, <<"n">> }
\* s is a string of the decimal digits 0..9.
DigitString(s) == Len(s) > 0 /\ \A i \in 1..Len(s) : s[i] \in frozenset(digits)

\* C1: AskPrompt.prompt(): a console.ask answered with a non-empty input
\* that the validator accepts (does not raise on) is the last console call
\* of the invocation, and prompt() has returned exactly that input.
C1_AcceptedInputReturned ==
  kind = "AskPrompt" =>
    \A i \in 1..Len(log) :
      ( /\ log[i].op = "ask"
        /\ log[i].val # EmptyStr
        /\ ~ self_validate[log[i].val].raises )
      => /\ i = Len(log)
         /\ pc = "done"
         /\ retval = log[i].val

\* A rejected input, then an accepted non-empty input other than the
\* configured default, which is returned.
C1_Witness ==
  /\ kind = "AskPrompt"
  /\ pc = "done"
  /\ Len(log) = 3
  /\ log[2].op = "error"
  /\ Truthy(self_default)
  /\ retval = <<"a">>
  /\ retval # self_default
  /\ log[3] = AskCall(Question, <<"a">>)

\* C2 as stated: an AskPrompt with a default (here a non-empty one, the
\* case in which the code substitutes), whatever its validator, that was
\* given an empty input returns the default.
C2_EmptyInputReturnsDefault ==
  ( /\ kind = "AskPrompt"
    /\ Truthy(self_default)
    /\ pc = "done"
    /\ \E i \in 1..Len(log) : log[i].op = "ask" /\ log[i].val = EmptyStr )
  => retval = self_default

\* C2 amended: an AskPrompt with a default whose validator accepts the
\* default returns the default as soon as the user supplies empty input; and
\* whenever prompt() returns on an empty input, it returns the default.
C2_EmptyInputReturnsAcceptedDefault ==
  ( kind = "AskPrompt" /\ self_default # NoneVal ) =>
    /\ \A i \in 1..Len(log) :
         ( /\ log[i].op = "ask"
           /\ log[i].val = EmptyStr
           /\ ~ self_validate[self_default].raises )
         => /\ i = Len(log)
            /\ pc = "done"
            /\ retval = self_default
    /\ ( pc = "done" /\ log[Len(log)].val = EmptyStr )
         => retval = self_default

\* Empty input answered with the default "d".
C2_Witness ==
  /\ kind = "AskPrompt"
  /\ pc = "done"
  /\ self_default = <<"d">>
  /\ arg_validate.given
  /\ log[Len(log)] = AskCall(Question, EmptyStr)
  /\ retval = <<"d">>

\* C3 as stated: every value MultipleChoicePrompt.prompt() returns is a
\* digit string whose value is a displayed index 1..len(options), or the
\* empty string when a default is configured.
C3_ReturnsDisplayedIndex ==
  ( kind = "MultipleChoicePrompt" /\ pc = "done" ) =>
    \/ /\ DigitString(retval)
       /\ DecimalValue(retval) \in 1..Len(self_options)
    \/ /\ self_default # NoneVal
       /\ retval = EmptyStr

\* C4: a value returned by PasswordPrompt.prompt() passed validate() and is
\* the value of the last two console calls, a 'Password: ' read followed
\* by a 'Password (again): ' read; nothing is returned before that.
C4_ReturnsValidatedMatchingPair ==
  kind = "PasswordPrompt" =>
    /\ pc # "done" => retval = NoneVal
    /\ pc = "done" =>
         /\ Len(log) >= 2
         /\ log[Len(log) - 1] = GetpassCall(<<"Password: ">>, retval)
         /\ log[Len(log)] = GetpassCall(<<"Password (again): ">>, retval)
         /\ ~ PasswordPrompt_validate(retval).raises

\* A password returned after an earlier mismatch.
C4_Witness ==
  /\ kind = "PasswordPrompt"
  /\ pc = "done"
  /\ Len(log) = 5
  /\ log[3] = ErrorCall(<<"Passwords do not match, please try again">>)
  /\ retval = <<"a","b","c","d","e">>

\* C5: every value BinaryPrompt.prompt() returns lower-cases to "y" or
\* "n"; an answer that (after default substitution) does not is never
\* returned: it is followed by an error print and, if the invocation goes
\* on, by a console.ask of the same question.
C5_ReturnsYesOrNo ==
  kind = "BinaryPrompt" =>
    /\ pc = "done" => lower(retval) \in YesNo
    /\ pc # "done" => retval = NoneVal
    /\ \A i \in 1..Len(log) :
         ( /\ log[i].op = "ask"
           /\ lower(Substitute(self_default, log[i].val)) \notin YesNo )
         => /\ i < Len(log)
            /\ log[i + 1].op = "error"
            /\ i + 2 <= Len(log) => log[i + 2].op = "ask"
                                     /\ log[i + 2].text = Question

\* A default that is not y/n was substituted and rejected, then "N" was
\* typed and returned.
C5_Witness ==
  /\ kind = "BinaryPrompt"
  /\ pc = "done"
  /\ self_default = <<"a">>
  /\ Len(log) = 3
  /\ log[1] = AskCall(Question, EmptyStr)
  /\ log[2].op = "error"
  /\ retval = <<"N">>

\* C6 as stated: a password of at least 5 characters, all of them letters,
\* digits or punctuation, is never rejected by validate(), and entered
\* twice in a row it is returned.
C6_AllowedPasswordReturned ==
  kind = "PasswordPrompt" =>
    \A i \in 1..Len(log) :
      ( /\ log[i] = GetpassCall(<<"Password: ">>, log[i].val)
        /\ Len(log[i].val) >= 5
        /\ frozenset(log[i].val) \subseteq allowed_characters )
      => /\ i < Len(log) => log[i + 1].op = "getpass"
         /\ ( i < Len(log) /\ log[i + 1].val = log[i].val )
              => /\ pc = "done"
                 /\ i + 1 = Len(log)
                 /\ retval = log[i].val

\* C7: no exception leaves prompt(); a console.error call always follows a
\* console read and is followed by a console read if the invocation goes
\* on; when AskPrompt, MultipleChoicePrompt or BinaryPrompt return, the
\* number of console.ask calls is the number of console.error calls plus
\* one.
C7_ErrorsCaughtAndCounted ==
  /\ pc # "raised"
  /\ \A i \in 1..Len(log) :
       log[i].op = "error" =>
         /\ i > 1
         /\ (i - 1) \in Reads
         /\ i < Len(log) => (i + 1) \in Reads
  /\ ( kind # "PasswordPrompt" /\ pc = "done" ) => NumAsks = NumErrors + 1

\* A prompt that returned after two rejected inputs.
C7_Witness ==
  /\ kind \in { "AskPrompt", "MultipleChoicePrompt", "BinaryPrompt" }
  /\ pc = "done"
  /\ NumErrors = 2
  /\ NumAsks = 3

\* C8 as stated: a MultipleChoicePrompt with a default that returns on an
\* empty input returns the default.
C8_EmptyChoiceReturnsDefault ==
  ( /\ kind = "MultipleChoicePrompt"
    /\ self_default # NoneVal
    /\ pc = "done"
    /\ log[Len(log)].val = EmptyStr )
  => retval = self_default

\* C9: in PasswordPrompt.prompt(), a 'Password: ' read whose value fails
\* validate() is followed by an error print and then by a 'Password: '
\* read; a 'Password (again): ' read that differs from the first entry is
\* followed by the mismatch error and then by a 'Password: ' read; a
\* 'Password (again): ' read only occurs right after a 'Password: ' read
\* whose value passed validate().
C9_RestartOrdering ==
  kind = "PasswordPrompt" =>
    \A i \in 1..Len(log) :
      /\ ( /\ log[i] = GetpassCall(<<"Password: ">>, log[i].val)
           /\ PasswordPrompt_validate(log[i].val).raises )
         => /\ i < Len(log)
            /\ log[i + 1].op = "error"
            /\ i + 2 <= Len(log) =>
                 log[i + 2] = GetpassCall(<<"Password: ">>, log[i + 2].val)
      /\ log[i] = GetpassCall(<<"Password (again): ">>, log[i].val)
         => /\ i > 1
            /\ log[i - 1] = GetpassCall(<<"Password: ">>, log[i - 1].val)
            /\ ~ PasswordPrompt_validate(log[i - 1].val).raises
            /\ log[i].val # log[i - 1].val
               => /\ i < Len(log)
                  /\ log[i + 1] =
                       ErrorCall(<<"Passwords do not match, please try again">>)
                  /\ i + 2 <= Len(log) =>
                       log[i + 2] =
                         GetpassCall(<<"Password: ">>, log[i + 2].val)

\* An invalid first entry, then a mismatch, then a third 'Password: ' read.
C9_Witness ==
  /\ kind = "PasswordPrompt"
  /\ Len(log) >= 6
  /\ log[1].op = "getpass"
  /\ log[2] = ErrorCall(<<"Passwords must be at least 6 characters long">>)
  /\ log[3] = GetpassCall(<<"Password: ">>, log[3].val)
  /\ log[4] = GetpassCall(<<"Password (again): ">>, log[4].val)
  /\ log[5] = ErrorCall(<<"Passwords do not match, please try again">>)
  /\ log[6] = GetpassCall(<<"Password: ">>, log[6].val)

\* C10 as stated: MultipleChoicePrompt.validate(s), applied to the answer
\* of a console.ask: a digit string is accepted exactly when
\* 1 <= int(s) <= len(options) + 1 and otherwise fails with 'Value is not
\* in range'; a non-empty string that is not all digits fails with 'Please
\* enter a numeric value'.
C10_ValidateOutcome ==
  kind = "MultipleChoicePrompt" =>
    \A i \in 1..Len(log) :
      ( log[i].op = "ask" /\ ( i < Len(log) \/ pc = "done" ) ) =>
        LET s == log[i].val
        IN /\ DigitString(s) =>
                IF DecimalValue(s) \in 1..(Len(self_options) + 1)
                THEN i = Len(log) /\ retval = s
                ELSE log[i + 1] = ErrorCall(<<"Value is not in range">>)
           /\ ( s # EmptyStr /\ ~ DigitString(s) ) =>
                /\ i < Len(log)
                /\ log[i + 1] = ErrorCall(<<"Please enter a numeric value">>)

\* C11: MultipleChoicePrompt.validate(""), applied to an empty answer of
\* console.ask: with a default configured (not None) it succeeds, so the
\* empty answer is returned without an error; without a default it fails
\* with a validation error.
C11_EmptyValidIffDefault ==
  kind = "MultipleChoicePrompt" =>
    \A i \in 1..Len(log) :
      ( /\ log[i].op = "ask"
        /\ log[i].val = EmptyStr
        /\ ( i < Len(log) \/ pc = "done" ) )
      => IF self_default # NoneVal
         THEN /\ i = Len(log)
              /\ pc = "done"
              /\ retval = EmptyStr
         ELSE /\ i < Len(log)
              /\ log[i + 1].op = "error"

\* An empty answer accepted under the default '' (configured, but false).
C11_Witness ==
  /\ kind = "MultipleChoicePrompt"
  /\ self_default = EmptyStr
  /\ pc = "done"
  /\ Len(log) = 3
  /\ log[2].op = "error"
  /\ log[3] = AskCall(Question, EmptyStr)
  /\ retval = EmptyStr

\* C12 as stated: every password PasswordPrompt.prompt() returns is at
\* least 6 characters long.
C12_ReturnedAtLeastSix ==
  ( kind = "PasswordPrompt" /\ pc = "done" ) => Len(retval) >= 6

\* C13 as stated: every password PasswordPrompt.prompt() returns consists
\* only of letters, digits and punctuation.
C13_ReturnedOnlyAllowed ==
  ( kind = "PasswordPrompt" /\ pc = "done" ) =>
    frozenset(retval) \subseteq
      ( frozenset(ascii_letters) \cup frozenset(digits)
        \cup frozenset(punctuation) )

\* The i-th line of the numbered list: '<i>. <option>'.
NumberedLine(i) == << digits[i + 1], ".", " " >> \o self_options[i]

RECURSIVE NumberedList(_)
\* The first n lines of the numbered list, separated by newlines.
NumberedList(n) ==
  IF n = 0 THEN EmptyStr
  ELSE IF n = 1 THEN NumberedLine(1)
  ELSE NumberedList(n - 1) \o <<"\n">> \o NumberedLine(n)

\* C14: in MultipleChoicePrompt.prompt() the first console call is a
\* console.ask whose text is the question, a newline and the options
\* numbered from 1 in list order; every later console.ask receives the bare
\* question.
C14_ListShownOnce ==
  kind = "MultipleChoicePrompt" =>
    \A i \in 1..Len(log) :
      /\ i = 1 =>
           /\ log[i].op = "ask"
           /\ log[i].text =
                Question \o <<"\n">> \o NumberedList(Len(self_options))
           /\ log[i].text # Question
      /\ ( i > 1 /\ log[i].op = "ask" ) => log[i].text = Question

\* Two options shown in the first ask, the bare question in the second.
C14_Witness ==
  /\ kind = "MultipleChoicePrompt"
  /\ self_options = << <<"a">>, <<"b">> >>
  /\ Len(log) >= 3
  /\ log[1].text = << "Q", "?", "\n", "1", ".", " ", "a", "\n",
                      "2", ".", " ", "b" >>
  /\ log[2].op = "error"
  /\ log[3].op = "ask"
  /\ log[3].text = << "Q", "?" >>

\* The validator an AskPrompt was constructed with (accepting everything
\* when none was supplied).
GivenValidator == IF arg_validate.given THEN arg_validate.fn ELSE AlwaysTrue

\* The value the validator must see for a console.ask answered with raw.
Validated(raw) ==
  IF raw = EmptyStr /\ self_default \notin { NoneVal, EmptyStr }
  THEN self_default ELSE raw

\* C16: in AskPrompt.prompt() every returned value is one the validator
\* did not raise on, and is the last answer after default substitution; an
\* answer whose substituted value the validator raises on (a rejected
\* default included) is followed by an error print and, if the invocation
\* goes on, by another console.ask; with no validator supplied the first
\* answer is returned.
C16_DefaultIsValidated ==
  kind = "AskPrompt" =>
    /\ pc = "done" =>
         /\ ~ GivenValidator[retval].raises
         /\ retval = Validated(log[Len(log)].val)
    /\ \A i \in 1..Len(log) :
         ( log[i].op = "ask" /\ GivenValidator[Validated(log[i].val)].raises )
         => /\ i < Len(log)
            /\ log[i + 1].op = "error"
            /\ i + 2 <= Len(log) => log[i + 2].op = "ask"
    /\ ( ~ arg_validate.given /\ Len(log) >= 1 ) =>
         /\ Len(log) = 1
         /\ pc = "done"

\* The validator rejects the default "d": empty input is answered with an
\* error, and the next answer is returned.
C16_Witness ==
  /\ kind = "AskPrompt"
  /\ self_default = <<"d">>
  /\ arg_validate.given
  /\ arg_validate.fn[<<"d">>].raises
  /\ pc = "done"
  /\ Len(log) = 3
  /\ log[1] = AskCall(Question, EmptyStr)
  /\ log[2].op = "error"
  /\ retval = <<"a">>

\* ------------------------------------------------- unbounded retries ----
\* To let the retry loops go round without limit, the log keeps the calls
\* of the latest passes only: when prompt() is still running and
\* MaxLiveCalls calls or more are recorded, recording starts over.
Forget ==
  /\ pc \notin { "done", "raised" }
  /\ Len(log) >= MaxLiveCalls
  /\ log' = <<>>
  /\ UNCHANGED << kind, arg_validate, self_validate, self_default,
                  self_options, pc, answer, password1, password2, retval >>

LiveNext ==
  \/ Len(log) < MaxLiveCalls /\ Next
  \/ Forget

\* The user types an answer the AskPrompt returns.
AskAccepted == AskPrompt_prompt /\ pc' = "done"

\* The user types an answer the BinaryPrompt returns.
BinaryAccepted == BinaryPrompt_prompt /\ pc' = "done"

\* The user types an answer MultipleChoicePrompt.validate accepts.
MultipleChoiceAccepted ==
  /\ MultipleChoicePrompt_ask \/ MultipleChoicePrompt_prompt
  /\ \/ pc' = "done"
     \/ ~ MultipleChoicePrompt_validate(self_default, self_options,
                                        answer').raises

\* The user types a first password PasswordPrompt.validate accepts.
PasswordAccepted == PasswordPrompt_first /\ pc' = "again"

\* The user types a confirmation equal to the first password.
PasswordConfirmed == PasswordPrompt_again /\ pc' = "done"

\* prompt() keeps running (a console read returns once the user has typed),
\* and the user who is asked again and again eventually types an acceptable
\* answer: for PasswordPrompt an acceptable first entry and then a matching
\* confirmation.
LiveSpec ==
  /\ Init
  /\ [][LiveNext]_vars
  /\ WF_vars(LiveNext)
  /\ SF_vars(AskAccepted)
  /\ SF_vars(BinaryAccepted)
  /\ SF_vars(MultipleChoiceAccepted)
  /\ SF_vars(PasswordAccepted)
  /\ SF_vars(PasswordConfirmed)

\* Some answer the user can type is acceptable to this prompt.
CanAccept ==
  \/ /\ kind = "AskPrompt"
     /\ \E input \in AskInputs :
          ~ self_validate[Validated(input)].raises
  \/ /\ kind = "BinaryPrompt"
     /\ \E input \in BinaryInputs : lower(Validated(input)) \in YesNo
  \/ kind = "MultipleChoicePrompt"
  \/ kind = "PasswordPrompt"

\* The value prompt() returned was accepted by this prompt's validation.
ReturnedAccepted ==
  /\ kind = "AskPrompt" => ~ GivenValidator[retval].raises
  /\ kind = "MultipleChoicePrompt" =>
       ~ MultipleChoicePrompt_validate(self_default, self_options,
                                       retval).raises
  /\ kind = "BinaryPrompt" => lower(retval) \in YesNo
  /\ kind = "PasswordPrompt" =>
       /\ ~ PasswordPrompt_validate(retval).raises
       /\ password1 = retval
       /\ password2 = retval

\* C15: prompt() is only ever awaiting input or returned (never failed or
\* cancelled); it has returned only when the input was accepted; once it
\* has returned nothing changes and no console call is made; and if the
\* user can type an acceptable answer and eventually does, prompt()
\* eventually returns.
C15_LoopsUntilAccepted ==
  /\ [] ( pc \in { "start", "loop", "again", "done" } )
  /\ [] ( pc # "done" => retval = NoneVal )
  /\ [] ( pc = "done" => ReturnedAccepted )
  /\ [] [ pc = "done" => UNCHANGED vars ]_vars
  /\ [] ( CanAccept => <> ( pc = "done" ) )

\* A prompt that returned after the log was started over at least once:
\* the recorded calls begin with an error print.
C15_Witness ==
  /\ kind = "MultipleChoicePrompt"
  /\ pc = "done"
  /\ Len(log) = 2
  /\ log[1].op = "error"
  /\ log[2] = AskCall(Question, <<"2">>)
  /\ retval = <<"2">>

====
